---------------------------- MODULE Spec2Model ----------------------------
(***************************************************************************)
(* A model of the data-preparation pipeline of am_training.ipynb:          *)
(*   - IterableAudioStreamDataset / grouper (the partitioned stream),      *)
(*   - get_padded_last_timestamp / get_phoneme_timestamps (the timeline),  *)
(*   - save_phoneme_frames (the segment writer),                           *)
(*   - mp__save_phoneme_frames (the worker pool).                          *)
(* Each part is a state machine of its own; a behaviour runs one part and  *)
(* leaves the others idle.  Times are integer milliseconds: the label      *)
(* files carry three decimals, and with FRAME_SIZE = 250 the comparisons   *)
(* and floor divisions of the timeline come out the same in exact          *)
(* arithmetic.  A sample index int(t * sr) is the exact floor, less one    *)
(* where the double product falls just short of an integer.                *)
(***************************************************************************)
EXTENDS Integers, Sequences, FiniteSets, TLC

VARIABLES
    part,          \* which part of the notebook this behaviour runs
    \* ---- IterableAudioStreamDataset
    files,         \* self.files: the globbed list of paths (distinct items)
    batch_size,    \* self.batch_size
    ds,            \* "none" | "constructed" | "AssertionError"
    num_workers,   \* DataLoader(num_workers=...), -1 before the loader exists
    iters,         \* worker -> state of the iterator __iter__ returned
    \* ---- get_phoneme_timestamps
    label_file,    \* f.read().splitlines(), each line split on tabs
    tl,            \* what get_phoneme_timestamps produced
    \* ---- save_phoneme_frames, mp__save_phoneme_frames
    audio_files,   \* glob("data/raw/*.wav")
    raw_labels,    \* data/raw/<name>_labels.txt: audio name -> its lines
    raw_wavs,      \* data/raw/*.wav: path -> sample rate and sample count
    pool,          \* "none" | "mapping" | "returned" | "raised"
    taskq,         \* the chunks of pool.map no worker has taken yet
    wk,            \* worker -> where it is in save_phoneme_frames
    results,       \* path -> how the call on it ended, "pending" until then
    disk           \* data/phonemes: the wavfile.write calls made

streamVars == <<files, batch_size, ds, num_workers, iters>>

timelineVars == <<label_file, tl>>

poolVars == <<audio_files, raw_labels, raw_wavs, pool, taskq, wk, results, disk>>

vars == <<part, streamVars, timelineVars, poolVars>>

\* ------------------------------------------------------------------ bounds
MaxFiles   == 10   \* longest item list
MaxBatch   == 3    \* largest batch size
MaxWorkers == 3    \* largest DataLoader worker count
MaxLines   == 2    \* most lines in a label file
MaxAudioFiles  == 5    \* most recordings handed to the pool
MaxPoolWorkers == 2    \* largest pool

\* --------------------------------------------------------------- constants
FRAME_SIZE == 250
WINDOW     == 50

\* ------------------------------------------------------------------ helpers
Min(a, b) == IF a < b THEN a ELSE b
Max(a, b) == IF a > b THEN a ELSE b

\* np.ceil(a / b) for a >= 0, b > 0
Ceil(a, b) == (a + b - 1) \div b

\* Python's s[a:b] for 0 <= a, 0 <= b (0-based, end clipped to len(s))
Slice(s, a, b) ==
    LET hi == Min(b, Len(s))
    IN  IF a >= hi THEN <<>> ELSE [k \in 1..(hi - a) |-> s[a + k]]

\* ===================================================================
\* The partitioned stream
\* ===================================================================

\* fillvalue=None of grouper; the items themselves are 1..len
None == 0

\* The worker that iterates when get_worker_info() is None
MainProcess == -1

Workers(k) == IF k = 0 THEN {MainProcess} ELSE 0..(k - 1)

\* one tuple of zip_longest(*[iter(iterable)] * n, fillvalue): the next n
\* items of the shared iterator, the exhausted positions filled
NextGroup(rest, n, fillvalue) ==
    [j \in 1..n |-> IF j <= Len(rest) THEN rest[j] ELSE fillvalue]

\* start_idx, end_idx of __iter__ ; worker_info is None for MainProcess
files_per_batch == Ceil(Len(files), batch_size)

work_load(n_workers) == Len(files) \div n_workers

start_idx(worker_id, n_workers) ==
    IF worker_id = MainProcess THEN 0
    ELSE worker_id * work_load(n_workers)

\* mutant: the slice of a worker runs one item into its neighbour's
end_idx_overlap(worker_id, n_workers) ==
    IF worker_id = MainProcess THEN files_per_batch
    ELSE start_idx(worker_id, n_workers) + work_load(n_workers) + 1

end_idx(worker_id, n_workers) ==
    IF worker_id = MainProcess THEN files_per_batch
    ELSE start_idx(worker_id, n_workers) + work_load(n_workers)

\* mutant: only the batch size is asserted
Validates_batch_only(fs, bs) == bs > 0

\* assert self.files ; assert self.batch_size > 0
Validates(fs, bs) == Len(fs) > 0 /\ bs > 0

\* IterableAudioStreamDataset.__init__ ; batch_size defaults to 0
DatasetInit(n, bs) ==
    /\ part = "stream"
    /\ ds = "none"
    /\ files' = [i \in 1..n |-> i]
    /\ batch_size' = bs
    /\ ds' = IF Validates(files', bs) THEN "constructed" ELSE "AssertionError"
    /\ UNCHANGED <<part, num_workers, iters, timelineVars, poolVars>>

\* torch.utils.data.DataLoader(ds, batch_size=None, num_workers=k)
DataLoader(k) ==
    /\ part = "stream"
    /\ ds = "constructed"
    /\ num_workers = -1
    /\ num_workers' = k
    /\ iters' = [w \in Workers(k) |-> [pc |-> "new", rest |-> <<>>, out |-> <<>>]]
    /\ UNCHANGED <<part, files, batch_size, ds, timelineVars, poolVars>>

\* IterableAudioStreamDataset.__iter__ in worker w
Iter(w) ==
    /\ part = "stream"
    /\ num_workers >= 0
    /\ w \in DOMAIN iters
    /\ iters[w].pc = "new"
    /\ iters' = [iters EXCEPT ![w] =
           [pc   |-> "iterating",
            rest |-> Slice(files, start_idx(w, num_workers), end_idx(w, num_workers)),
            out  |-> <<>>]]
    /\ UNCHANGED <<part, files, batch_size, ds, num_workers, timelineVars, poolVars>>

\* The consumer pulls the next tuple from the grouper w iterates.  The tuple
\* goes on to stream_batch, the transform of paths to spectrograms, which is
\* outside this model.
NextBatch(w) ==
    /\ part = "stream"
    /\ num_workers >= 0
    /\ w \in DOMAIN iters
    /\ iters[w].pc = "iterating"
    /\ IF Len(iters[w].rest) = 0
       THEN iters' = [iters EXCEPT ![w].pc = "StopIteration"]
       ELSE iters' = [iters EXCEPT
                ![w].out  = Append(@, NextGroup(iters[w].rest, batch_size, None)),
                ![w].rest = Slice(@, batch_size, Len(@))]
    /\ UNCHANGED <<part, files, batch_size, ds, num_workers, timelineVars, poolVars>>

StreamIdle ==
    /\ files = <<>>
    /\ batch_size = 0
    /\ ds = "none"
    /\ num_workers = -1
    /\ iters = <<>>

TimelineIdle ==
    /\ label_file = <<>>
    /\ tl = [status |-> "none", padded |-> 0, frames |-> <<>>]

PoolIdle ==
    /\ audio_files = <<>>
    /\ raw_labels = <<>>
    /\ raw_wavs = <<>>
    /\ pool = "none"
    /\ taskq = <<>>
    /\ wk = <<>>
    /\ results = <<>>
    /\ disk = {}

StreamInit ==
    /\ part = "stream"
    /\ StreamIdle
    /\ TimelineIdle
    /\ PoolIdle

StreamNext ==
    \/ \E n \in 0..MaxFiles, bs \in -1..MaxBatch : DatasetInit(n, bs)
    \/ \E k \in 0..MaxWorkers : DataLoader(k)
    \/ \E w \in MainProcess..(MaxWorkers - 1) : Iter(w)
    \/ \E w \in MainProcess..(MaxWorkers - 1) : NextBatch(w)

SpecStream == StreamInit /\ [][StreamNext]_vars

\* ===================================================================
\* Claims about the partitioned stream
\* ===================================================================

RECURSIVE Flatten(_)
Flatten(groups) ==
    IF Len(groups) = 0 THEN <<>> ELSE Head(groups) \o Flatten(Tail(groups))

\* the non-filler slots of what worker w has been handed, in order
Emitted(w) == SelectSeq(Flatten(iters[w].out), LAMBDA x : x # None)

Visited(w) == {Emitted(w)[k] : k \in 1..Len(Emitted(w))}

VisitCount(item) ==
    Cardinality({<<w, k>> \in (DOMAIN iters) \X (1..MaxFiles + 1) :
                    k <= Len(Emitted(w)) /\ Emitted(w)[k] = item})

AllExhausted == \A w \in DOMAIN iters : iters[w].pc = "StopIteration"

C2_UnattachedCoversWholeList ==
    (part = "stream" /\ num_workers = 0 /\ iters[MainProcess].pc = "StopIteration") =>
        LET out == iters[MainProcess].out
        IN  /\ Len(out) = Ceil(Len(files), batch_size)
            /\ \A g \in 1..Len(out) : Len(out[g]) = batch_size
            /\ Emitted(MainProcess) = files
            /\ \A g \in 1..Len(out) : \A j \in 1..batch_size :
                 out[g][j] = None =>
                    /\ g = Len(out)
                    /\ \A j2 \in j..batch_size : out[g][j2] = None

\* ===================================================================
\* The frame timeline
\* ===================================================================

\* Text is a sequence of characters.
Empty == <<>>
SIL   == <<"S", "I", "L">>
ah_S  == <<"a", "h", "_", "S">>
b_S   == <<"b", "_", "S">>
junk  == <<"x">>

\* One tab-separated field of a label line: a field float() accepts carries its
\* value in milliseconds, any other field carries ms = -1 and its text.
Num(t) == [num |-> TRUE, ms |-> t, txt |-> <<"#">>]
Txt(t) == [num |-> FALSE, ms |-> -1, txt |-> t]

EndTimes == {120, 150, 250, 300, 1000, 1120}
Phonemes == {ah_S, b_S, Empty, SIL}

GoodLines == {<<Num(0), Num(e), Txt(ph)>> : e \in EndTimes, ph \in Phonemes}

OddLines ==
    {  <<Txt(Empty)>>,                              \* a blank line
       <<Num(0), Num(150)>>,                        \* two fields
       <<Num(0), Num(150), Txt(ah_S), Txt(junk)>>,     \* four fields
       <<Txt(junk), Num(150), Txt(ah_S)>>,             \* start is no number
       <<Num(0), Txt(junk), Txt(ah_S)>>,               \* end is no number
       <<Num(300), Num(150), Txt(ah_S)>>,           \* start after end
       <<Num(250), Num(250), Txt(b_S)>> }           \* start equals end

\* well-formed lines of intervals that start after 0, leaving a gap
GapLines ==
    {  <<Num(200), Num(300), Txt(ah_S)>>,
       <<Num(600), Num(1120), Txt(b_S)>> }

Lines == GoodLines \cup OddLines \cup GapLines

LabelFiles == UNION {[1..n -> Lines] : n \in 0..MaxLines}

\* mutant: no extra frame is added to the whole ones the remainder holds
get_padded_last_timestamp_no_extra(timestamp) ==
    LET diff == timestamp % 1000
    IN  IF diff = 0 THEN timestamp \div 1000
        ELSE (timestamp \div 1000) * 1000 + FRAME_SIZE * (diff \div FRAME_SIZE)

\* int(get_padded_last_timestamp(timestamp)), timestamp given in milliseconds.
\* With no fractional second the function returns its argument, which is in
\* seconds; otherwise it returns milliseconds.
get_padded_last_timestamp(timestamp) ==
    LET diff    == timestamp % 1000
        padding == diff \div FRAME_SIZE + 1
    IN  IF diff = 0 THEN timestamp \div 1000
        ELSE (timestamp \div 1000) * 1000 + FRAME_SIZE * padding

\* zip(*rows) is as wide as the shortest row
ZipWidth(lines) ==
    CHOOSE m \in {Len(lines[k]) : k \in 1..Len(lines)} :
        \A k \in 1..Len(lines) : m <= Len(lines[k])

\* mutant: an interval that ends after the frame is passed over, not stopped at
RECURSIVE ScanLabel_continue(_, _, _, _)
ScanLabel_continue(lines, k, end_time, sym) ==
    IF k > Len(lines) THEN [raised |-> FALSE, sym |-> sym]
    ELSE IF ~lines[k][2].num THEN [raised |-> TRUE, sym |-> sym]
    ELSE IF lines[k][2].ms > end_time
         THEN ScanLabel_continue(lines, k + 1, end_time, sym)
    ELSE ScanLabel_continue(lines, k + 1, end_time,
                            [found |-> TRUE, txt |-> lines[k][3].txt])

\* mutant: an interval that ends exactly with the frame stops the scan too
RECURSIVE ScanLabel_strict(_, _, _, _)
ScanLabel_strict(lines, k, end_time, sym) ==
    IF k > Len(lines) THEN [raised |-> FALSE, sym |-> sym]
    ELSE IF ~lines[k][2].num THEN [raised |-> TRUE, sym |-> sym]
    ELSE IF lines[k][2].ms >= end_time THEN [raised |-> FALSE, sym |-> sym]
    ELSE ScanLabel_strict(lines, k + 1, end_time,
                          [found |-> TRUE, txt |-> lines[k][3].txt])

\* the inner loop of get_phoneme_timestamps from interval k on: sym after the
\* loop, or the ValueError float(end) raised
RECURSIVE ScanLabel(_, _, _, _)
ScanLabel(lines, k, end_time, sym) ==
    IF k > Len(lines) THEN [raised |-> FALSE, sym |-> sym]
    ELSE IF ~lines[k][2].num THEN [raised |-> TRUE, sym |-> sym]
    ELSE IF lines[k][2].ms > end_time THEN [raised |-> FALSE, sym |-> sym]
    ELSE ScanLabel(lines, k + 1, end_time,
                   [found |-> TRUE, txt |-> lines[k][3].txt])

SymNone == [found |-> FALSE, txt |-> Empty]

\* sym or "SIL"
OrSIL(sym) == IF sym.found /\ sym.txt # Empty THEN sym.txt ELSE SIL

\* range(0, stop, step) has this many members
RangeLen(stop, step) == IF stop <= 0 THEN 0 ELSE Ceil(stop, step)

ValueError == [status |-> "ValueError", padded |-> 0, frames |-> <<>>]

\* mutant: the last end is taken without being parsed
ParsesLastEnd_unchecked(lines) == TRUE

\* float(ends[-1]) returns
ParsesLastEnd(lines) == lines[Len(lines)][2].num

get_phoneme_timestamps(lines) ==
    IF Len(lines) = 0 THEN ValueError
    ELSE IF ZipWidth(lines) # 3 THEN ValueError
    ELSE IF ~ParsesLastEnd(lines) THEN ValueError
    ELSE
      LET last_timestamp        == lines[Len(lines)][2].ms
          padded_last_timestamp == get_padded_last_timestamp(last_timestamp)
          n      == RangeLen(padded_last_timestamp, WINDOW)
          scan(k) == ScanLabel(lines, 1, (k - 1) * WINDOW + FRAME_SIZE, SymNone)
      IN  IF \E k \in 1..n : scan(k).raised THEN ValueError
          ELSE [status |-> "ok",
                padded |-> padded_last_timestamp,
                frames |-> [k \in 1..n |->
                              [start   |-> (k - 1) * WINDOW,
                               end     |-> (k - 1) * WINDOW + FRAME_SIZE,
                               phoneme |-> OrSIL(scan(k).sym)]]]

\* a call of get_phoneme_timestamps on the label file
GetPhonemeTimestamps ==
    /\ part = "timeline"
    /\ tl.status = "none"
    /\ tl' = get_phoneme_timestamps(label_file)
    /\ UNCHANGED <<part, label_file, streamVars, poolVars>>

TimelineInit ==
    /\ part = "timeline"
    /\ StreamIdle
    /\ PoolIdle
    /\ label_file \in LabelFiles
    /\ tl = [status |-> "none", padded |-> 0, frames |-> <<>>]

TimelineNext == GetPhonemeTimestamps

SpecTimeline == TimelineInit /\ [][TimelineNext]_vars

\* ===================================================================
\* Claims about the frame timeline
\* ===================================================================

Built == part = "timeline" /\ tl.status = "ok"

\* lastEnd: the end of the last interval given, in milliseconds
LastEnd == label_file[Len(label_file)][2].ms

\* interval k completes at or before the end of frame f
Qualifies(k, f) == label_file[k][2].num /\ label_file[k][2].ms <= f.end

\* C3: the last frame of every timeline built ends at or after lastEnd.
C3_LastFrameCoversRecording ==
    Built => /\ Len(tl.frames) > 0
             /\ tl.frames[Len(tl.frames)].end >= LastEnd

\* C4 as stated: when lastEnd_ms is a multiple of WINDOW the padded end is
\* lastEnd_ms and the timeline has lastEnd_ms / WINDOW frames.
C4_NoOpOnWindowBoundary ==
    (Built /\ LastEnd % WINDOW = 0) =>
        /\ tl.padded = LastEnd
        /\ Len(tl.frames) = LastEnd \div WINDOW

\* C4 as amended: the padded end is lastEnd unchanged (and then in seconds) only
\* when lastEnd is a whole number of seconds; for every other lastEnd, multiples
\* of WINDOW included, it is the smallest multiple of FRAME_SIZE strictly greater
\* than lastEnd_ms and the timeline has exactly paddedEnd / WINDOW frames.
C4_PaddingToNextFrameSize ==
    Built =>
        IF LastEnd % 1000 = 0
        THEN tl.padded * 1000 = LastEnd
        ELSE /\ tl.padded > LastEnd
             /\ tl.padded - LastEnd <= FRAME_SIZE
             /\ tl.padded % FRAME_SIZE = 0
             /\ Len(tl.frames) * WINDOW = tl.padded

\* lastEnd = 150 ms, on a WINDOW boundary: padded to 250 ms, 5 frames
C4_Witness ==
    /\ Built /\ LastEnd = 150 /\ LastEnd % WINDOW = 0
    /\ tl.padded = 250 /\ Len(tl.frames) = 5

\* C5 as stated: a frame's label is the phoneme of the last interval in input
\* order whose end does not exceed the frame's end, and is "SIL" exactly when
\* there is no such interval.
C5_LastQualifyingIntervalWins ==
    Built =>
        \A n \in 1..Len(tl.frames) :
            LET f == tl.frames[n]
                Q == {k \in 1..Len(label_file) : Qualifies(k, f)}
            IN  /\ (f.phoneme = SIL) <=> (Q = {})
                /\ Q # {} =>
                     f.phoneme =
                        label_file[CHOOSE k \in Q : \A j \in Q : j <= k][3].txt

\* the number of leading intervals that all complete by the end of frame f
LeadingRun(f) ==
    CHOOSE r \in 0..Len(label_file) :
        /\ \A j \in 1..r : Qualifies(j, f)
        /\ r < Len(label_file) => ~Qualifies(r + 1, f)

\* C5 as amended: the scan stops at the first interval, in input order, that
\* ends after the frame's end; the label is the phoneme of the last interval
\* before that point, and "SIL" when there is none or its phoneme is empty.
C5_LastOfLeadingRunWins ==
    Built =>
        \A n \in 1..Len(tl.frames) :
            LET f == tl.frames[n]
                r == LeadingRun(f)
            IN  f.phoneme =
                  (IF r = 0 \/ label_file[r][3].txt = Empty THEN SIL
                   ELSE label_file[r][3].txt)

\* an interval completing within a frame is hidden by an earlier one that does
\* not, and the frame is labelled SIL; another frame takes a later label
C5_Witness ==
    /\ Built /\ Len(label_file) = 2
    /\ \E n \in 1..Len(tl.frames) :
          /\ Qualifies(2, tl.frames[n]) /\ ~Qualifies(1, tl.frames[n])
          /\ tl.frames[n].phoneme = SIL
    /\ \E n \in 1..Len(tl.frames) :
          /\ LeadingRun(tl.frames[n]) = 2
          /\ tl.frames[n].phoneme = label_file[2][3].txt
          /\ tl.frames[n].phoneme # label_file[1][3].txt

\* a line that is not two ordered timestamps and a label
Malformed(line) ==
    \/ Len(line) # 3
    \/ ~line[1].num
    \/ ~line[2].num
    \/ ~(line[1].ms < line[2].ms)

Returned == part = "timeline" /\ tl.status # "none"

\* C10 as stated: building fails whenever the content is empty or any line is
\* malformed.
C10_MalformedAlwaysFails ==
    (Returned /\ (Len(label_file) = 0
                  \/ \E k \in 1..Len(label_file) : Malformed(label_file[k])))
        => tl.status = "ValueError"

\* C10 as amended: building fails whenever the content is empty, a line has
\* fewer than three fields, every line has more than three, or the end of the
\* last line is not a number.
C10_FailsOnShortOrEmpty ==
    (Returned /\ (\/ Len(label_file) = 0
                  \/ \E k \in 1..Len(label_file) : Len(label_file[k]) < 3
                  \/ \A k \in 1..Len(label_file) : Len(label_file[k]) > 3
                  \/ \E k \in 1..Len(label_file) :
                        /\ k = Len(label_file)
                        /\ Len(label_file[k]) >= 2
                        /\ ~label_file[k][2].num))
        => tl.status = "ValueError"

\* a well-formed line followed by one whose end is no number: the build failed
C10_Witness ==
    /\ Returned /\ Len(label_file) = 2
    /\ ~Malformed(label_file[1])
    /\ Len(label_file[2]) = 3 /\ ~label_file[2][2].num
    /\ tl.status = "ValueError"

\* ===================================================================
\* The segment writer and the worker pool
\* ===================================================================

DotWav       == <<".", "w", "a", "v">>
Delimiter    == <<"_", "_">>
oov          == <<"o", "o", "v">>
DataRaw      == <<"d", "a", "t", "a", "/", "r", "a", "w", "/">>
DataPhonemes == <<"d", "a", "t", "a", "/", "p", "h", "o", "n", "e", "m", "e", "s", "/">>

\* pat in s
Contains(s, pat) ==
    \E k \in 1..(Len(s) - Len(pat) + 1) : SubSeq(s, k, k + Len(pat) - 1) = pat

\* s.replace(pat, ""): every occurrence, left to right, is dropped
RECURSIVE Remove(_, _)
Remove(s, pat) ==
    IF Len(s) < Len(pat) THEN s
    ELSE IF SubSeq(s, 1, Len(pat)) = pat
         THEN Remove(SubSeq(s, Len(pat) + 1, Len(s)), pat)
    ELSE <<Head(s)>> \o Remove(Tail(s), pat)

\* s.rsplit(sep)[-1]: what follows the last sep
RECURSIVE LastPart(_, _)
LastPart(s, sep) ==
    IF \E k \in 1..Len(s) : s[k] = sep
    THEN LastPart(Tail(s), sep)
    ELSE s

\* str(n) for n >= 0
Digit(d) == <<"0", "1", "2", "3", "4", "5", "6", "7", "8", "9">>[d + 1]

RECURSIVE Str(_)
Str(n) == IF n < 10 THEN <<Digit(n)>> ELSE Str(n \div 10) \o <<Digit(n % 10)>>

\* audio_path.replace(".wav", "").rsplit("/")[-1]
audio_name(audio_path) == LastPart(Remove(audio_path, DotWav), "/")

\* f"data/phonemes/{audio_name}__{phoneme}__{i + 1}.wav", i counted from 0
SegmentPath(name, phoneme, i) ==
    DataPhonemes \o name \o Delimiter \o phoneme \o Delimiter \o Str(i + 1) \o DotWav

\* int((sr * FRAME_SIZE)/1000)
data_size(sr) == (sr * FRAME_SIZE) \div 1000

\* len(wav[start:end]) for a recording of n samples
SliceLen(n, start, end) == Max(0, Min(end, n) - Min(start, n))

\* mutant: a short slice is written as it is
Padded_not(len, size) == len

\* len(data) after the np.pad of a slice shorter than data_size
Padded(len, size) == IF len < size THEN size ELSE len

\* "oov" not in phoneme
Retained(phoneme) == ~Contains(phoneme, oov)

\* The <<ms, sr>>, among the frame times and sample rates used below, whose
\* product (ms/1000) * sr is an integer that IEEE double arithmetic misses
\* from below (0.7 * 22050 = 15434.999999999998).
FloatFallsShort == {<<1400, 11025>>, <<700, 22050>>, <<1400, 22050>>}

\* int(t * sr) for t = ms/1000
SampleIndex(ms, sr) ==
    IF <<ms, sr>> \in FloatFallsShort THEN (ms * sr) \div 1000 - 1
    ELSE (ms * sr) \div 1000

\* the wavfile.write of frame i (from 0) of the timeline of audio_path
Segment(audio_path, frame, i) ==
    LET sr    == raw_wavs[audio_path].sr
        start == SampleIndex(frame.start, sr)
        end   == SampleIndex(frame.end, sr)
    IN  [name |-> SegmentPath(audio_name(audio_path), frame.phoneme, i),
         len  |-> Padded(SliceLen(raw_wavs[audio_path].n, start, end), data_size(sr)),
         sr   |-> sr,
         src  |-> audio_path,
         i    |-> i + 1]

Idle == [pc |-> "idle", chunk |-> <<>>, timeline |-> <<>>, i |-> 0]

\* the worker's state once the call on the head of its chunk has returned
NextCall(w) ==
    IF Len(wk[w].chunk) > 1
    THEN [pc |-> "call", chunk |-> Tail(wk[w].chunk), timeline |-> <<>>, i |-> 0]
    ELSE Idle

\* Pool.map cuts the list into chunks of this many tasks
Chunksize(n, workers) ==
    IF n % (workers * 4) # 0 THEN n \div (workers * 4) + 1 ELSE n \div (workers * 4)

RECURSIVE Chunks(_, _)
Chunks(list, size) ==
    IF Len(list) = 0 THEN <<>>
    ELSE <<Slice(list, 0, size)>> \o Chunks(Slice(list, size, Len(list)), size)

\* mp__save_phoneme_frames: pool = mp.Pool(workers); pool.map(..., audio_files)
PoolMap(workers) ==
    /\ part = "pool"
    /\ pool = "none"
    /\ pool' = "mapping"
    /\ taskq' = Chunks(audio_files, Chunksize(Len(audio_files), workers))
    /\ wk' = [w \in 0..(workers - 1) |-> Idle]
    /\ UNCHANGED <<part, audio_files, raw_labels, raw_wavs, results, disk,
                   streamVars, timelineVars>>

\* an idle pool worker takes the next chunk
TakeChunk(w) ==
    /\ part = "pool"
    /\ pool = "mapping"
    /\ w \in DOMAIN wk
    /\ wk[w].pc = "idle"
    /\ Len(taskq) > 0
    /\ wk' = [wk EXCEPT ![w] = [Idle EXCEPT !.pc = "call", !.chunk = Head(taskq)]]
    /\ taskq' = Tail(taskq)
    /\ UNCHANGED <<part, audio_files, raw_labels, raw_wavs, pool, results, disk,
                   streamVars, timelineVars>>

\* save_phoneme_frames up to the frame loop: the label file is read, the
\* timeline built and the recording read.  A missing label file is passed
\* over; any other exception leaves the function, and with it the chunk.
Call(w) ==
    /\ part \in {"pool", "segments"}
    /\ w \in DOMAIN wk
    /\ wk[w].pc = "call"
    /\ LET audio_path == Head(wk[w].chunk)
           name       == audio_name(audio_path)
       IN  IF name \notin DOMAIN raw_labels
           THEN /\ results' = [results EXCEPT ![audio_path] = "FileNotFoundError"]
                /\ wk' = [wk EXCEPT ![w] = NextCall(w)]
           ELSE LET phoneme_timestamps == get_phoneme_timestamps(raw_labels[name])
                IN  IF phoneme_timestamps.status = "ValueError"
                    THEN /\ results' = [results EXCEPT ![audio_path] = "ValueError"]
                         /\ wk' = [wk EXCEPT ![w] = Idle]
                    ELSE IF Len(phoneme_timestamps.frames) = 0
                    THEN /\ results' = [results EXCEPT ![audio_path] = "returned"]
                         /\ wk' = [wk EXCEPT ![w] = NextCall(w)]
                    ELSE /\ results' = results
                         /\ wk' = [wk EXCEPT ![w].pc = "frames",
                                             ![w].timeline = phoneme_timestamps.frames,
                                             ![w].i = 0]
    /\ UNCHANGED <<part, audio_files, raw_labels, raw_wavs, pool, taskq, disk,
                   streamVars, timelineVars>>

\* one turn of the frame loop of save_phoneme_frames; after the last frame
\* the call returns
WriteFrame(w) ==
    /\ part \in {"pool", "segments"}
    /\ w \in DOMAIN wk
    /\ wk[w].pc = "frames"
    /\ LET audio_path == Head(wk[w].chunk)
           i          == wk[w].i
           frame      == wk[w].timeline[i + 1]
       IN  /\ disk' = IF Retained(frame.phoneme)
                      THEN disk \cup {Segment(audio_path, frame, i)}
                      ELSE disk
           /\ IF i + 1 < Len(wk[w].timeline)
              THEN /\ wk' = [wk EXCEPT ![w].i = i + 1]
                   /\ results' = results
              ELSE /\ wk' = [wk EXCEPT ![w] = NextCall(w)]
                   /\ results' = [results EXCEPT ![audio_path] = "returned"]
    /\ UNCHANGED <<part, audio_files, raw_labels, raw_wavs, pool, taskq,
                   streamVars, timelineVars>>

Drained == Len(taskq) = 0 /\ \A w \in DOMAIN wk : wk[w].pc = "idle"

\* pool.map returns, or raises what a task raised
MapEnd ==
    /\ part = "pool"
    /\ pool = "mapping"
    /\ Drained
    /\ pool' = IF \E a \in DOMAIN results : results[a] = "ValueError"
               THEN "raised" ELSE "returned"
    /\ UNCHANGED <<part, audio_files, raw_labels, raw_wavs, taskq, wk, results, disk,
                   streamVars, timelineVars>>

\* ---- the segment writer on one recording, called directly
oov_S == <<"o", "o", "v", "_", "S">>
b_oov == <<"b", "_", "o", "o", "v">>

SegPath == DataRaw \o <<"a">> \o DotWav

SegLabelFiles ==
    { << <<Num(0), Num(150), Txt(ah_S)>> >>,
      << <<Num(0), Num(120), Txt(oov_S)>>, <<Num(120), Num(300), Txt(ah_S)>> >>,
      << <<Num(0), Num(250), Txt(b_S)>>, <<Num(250), Num(1120), Txt(b_oov)>> >>,
      << <<Num(0), Num(1000), Txt(b_S)>> >> }

SampleRates == {8000, 11025, 22050}
Durations   == {0, 100, 300, 2000}

SegmentsInit ==
    /\ part = "segments"
    /\ StreamIdle
    /\ TimelineIdle
    /\ audio_files = <<SegPath>>
    /\ \E lf \in SegLabelFiles : raw_labels = (audio_name(SegPath) :> lf)
    /\ \E sr \in SampleRates, d \in Durations :
          raw_wavs = (SegPath :> [sr |-> sr, n |-> (sr * d) \div 1000])
    /\ pool = "none"
    /\ taskq = <<>>
    /\ wk = (MainProcess :> [Idle EXCEPT !.pc = "call", !.chunk = audio_files])
    /\ results = (SegPath :> "pending")
    /\ disk = {}

SegmentsNext == Call(MainProcess) \/ WriteFrame(MainProcess)

SpecSegments == SegmentsInit /\ [][SegmentsNext]_vars

\* ---- the pool over the recordings of data/raw
b__c == <<"b", "_", "_", "c">>
c    == <<"c">>
d    == <<"d">>

Path_a     == DataRaw \o <<"a">> \o DotWav
Path_a__b  == DataRaw \o <<"a", "_", "_", "b">> \o DotWav
Path_e     == DataRaw \o <<"e">> \o DotWav
Path_m     == DataRaw \o <<"m">> \o DotWav
Path_a_wav == DataRaw \o <<"a">> \o DotWav \o DotWav

PoolPaths == {Path_a, Path_a__b, Path_e, Path_m, Path_a_wav}

\* a_labels.txt, a__b_labels.txt, and an empty e_labels.txt; m has none
PoolLabels ==
    (<<"a">> :> << <<Num(0), Num(150), Txt(b__c)>> >>)
    @@ (<<"a", "_", "_", "b">> :>
            << <<Num(0), Num(150), Txt(c)>>, <<Num(150), Num(1000), Txt(d)>> >>)
    @@ (<<"e">> :> <<>>)

Range(f) == {f[k] : k \in DOMAIN f}

PoolInit ==
    /\ part = "pool"
    /\ StreamIdle
    /\ TimelineIdle
    /\ \E n \in 1..MaxAudioFiles :
          /\ audio_files \in [1..n -> PoolPaths]
          /\ \A j, k \in 1..n : j # k => audio_files[j] # audio_files[k]
    /\ raw_labels = PoolLabels
    /\ raw_wavs = [a \in PoolPaths |-> [sr |-> 8000, n |-> 1200]]
    /\ pool = "none"
    /\ taskq = <<>>
    /\ wk = <<>>
    /\ results = [a \in Range(audio_files) |-> "pending"]
    /\ disk = {}

PoolNext ==
    \/ \E workers \in 1..MaxPoolWorkers : PoolMap(workers)
    \/ \E w \in 0..(MaxPoolWorkers - 1) : TakeChunk(w)
    \/ \E w \in 0..(MaxPoolWorkers - 1) : Call(w)
    \/ \E w \in 0..(MaxPoolWorkers - 1) : WriteFrame(w)
    \/ MapEnd

SpecPool == PoolInit /\ [][PoolNext]_vars

\* ===================================================================
\* Every part
\* ===================================================================

Init == StreamInit \/ TimelineInit \/ SegmentsInit \/ PoolInit

Next == StreamNext \/ TimelineNext \/ SegmentsNext \/ PoolNext

Spec == Init /\ [][Next]_vars

\* ===================================================================
\* Claims about the segment writer and the pool
\* ===================================================================

\* the timeline save_phoneme_frames builds for a recording
TimelineOf(audio_path) ==
    get_phoneme_timestamps(raw_labels[audio_name(audio_path)]).frames

\* the frames of a recording that carry no out-of-vocabulary tag
RetainedFrames(audio_path) ==
    {k \in 1..Len(TimelineOf(audio_path)) :
        \A j \in 1..(Len(TimelineOf(audio_path)[k].phoneme) - 2) :
            SubSeq(TimelineOf(audio_path)[k].phoneme, j, j + 2) # <<"o", "o", "v">>}

\* C6: no segment written has fewer than samplesPerFrame samples, none is
\* written for a frame whose phoneme carries the out-of-vocabulary tag, and a
\* recording whose call has returned has a segment for every other frame.
C6_NeverShortNeverOov ==
    part = "segments" =>
        /\ \A seg \in disk :
             /\ seg.len >= (seg.sr * FRAME_SIZE) \div 1000
             /\ seg.i \in RetainedFrames(seg.src)
        /\ \A a \in DOMAIN results :
             results[a] = "returned" =>
                {seg.i : seg \in {t \in disk : t.src = a}} = RetainedFrames(a)

\* a recording shorter than its timeline, finished: a frame cut short by the
\* end of the recording was padded, one past the end was written as zeros
\* only, and a frame tagged out-of-vocabulary was left out
C6_Witness ==
    /\ part = "segments"
    /\ results[SegPath] = "returned"
    /\ \E k \in 1..Len(TimelineOf(SegPath)) : k \notin RetainedFrames(SegPath)
    /\ \E seg \in disk :
          LET f == TimelineOf(SegPath)[seg.i]
              n == raw_wavs[SegPath].n
          IN  /\ SampleIndex(f.start, seg.sr) < n
              /\ SampleIndex(f.end, seg.sr) > n
              /\ seg.len = (seg.sr * FRAME_SIZE) \div 1000
    /\ \E seg \in disk :
          SampleIndex(TimelineOf(SegPath)[seg.i].start, seg.sr) >= raw_wavs[SegPath].n

\* C7: every segment written has exactly samplesPerFrame samples.
C7_ExactlySamplesPerFrame ==
    part = "segments" =>
        \A seg \in disk : seg.len = (seg.sr * FRAME_SIZE) \div 1000

\* the map has ended, by returning or by raising
MapEnded == part = "pool" /\ pool \in {"returned", "raised"}

\* the label file of the recording is there and a timeline can be built from it
Sound(audio_path) ==
    /\ audio_name(audio_path) \in DOMAIN raw_labels
    /\ get_phoneme_timestamps(raw_labels[audio_name(audio_path)]).status = "ok"

\* C8: once the run has ended, every recording that does not itself fail has
\* been processed and has all its segments written, whatever happened to
\* the other recordings of the run.
C8_FailureIsIsolated ==
    MapEnded =>
        \A k \in 1..Len(audio_files) :
            Sound(audio_files[k]) =>
                /\ results[audio_files[k]] = "returned"
                /\ \A i \in RetainedFrames(audio_files[k]) :
                      \E seg \in disk : seg.src = audio_files[k] /\ seg.i = i

\* C9: no output file is written twice: two writes, of distinct frames of one
\* recording or of frames of distinct recordings, never go to the same name.
C9_NoFileWrittenTwice ==
    part = "pool" =>
        \A s1, s2 \in disk : s1.name = s2.name => (s1.src = s2.src /\ s1.i = s2.i)

\* ===================================================================
\* Further claims about the partitioned stream
\* ===================================================================

\* C11: a construction with an empty item list or with batchSize <= 0 (0 is
\* the default) has failed once __init__ is over, and no loader or iterator
\* exists then or later; wherever an iterator exists the list is non-empty
\* and the batch size positive.
C11_ConstructionFailsEagerly ==
    part = "stream" =>
        /\ (ds # "none" /\ (Len(files) = 0 \/ batch_size <= 0)) =>
              /\ ds = "AssertionError"
              /\ num_workers = -1
              /\ iters = <<>>
        /\ (num_workers # -1 \/ iters # <<>>) =>
              /\ ds = "constructed"
              /\ Len(files) > 0
              /\ batch_size > 0

\* files are there but batch_size was left at its default, 0: the assertion
\* failed and nothing can be pulled
C11_Witness ==
    /\ part = "stream"
    /\ ds = "AssertionError"
    /\ Len(files) > 0 /\ batch_size = 0
    /\ num_workers = -1 /\ iters = <<>>

\* ===================================================================
\* Further claims about the frame timeline
\* ===================================================================

\* the intervals are given in non-decreasing end order
SortedByEnd ==
    /\ \A k \in 1..Len(label_file) : label_file[k][2].num
    /\ \A j, k \in 1..Len(label_file) :
          j < k => label_file[j][2].ms <= label_file[k][2].ms

NonEmptyLabels == \A k \in 1..Len(label_file) : label_file[k][3].txt # Empty

NoLabelReadsSIL == \A k \in 1..Len(label_file) : label_file[k][3].txt # SIL

\* the intervals that have ended at or before the end of frame n
EndedBy(n) == {k \in 1..Len(label_file) : label_file[k][2].ms <= tl.frames[n].end}

\* a frame carries the phoneme of the most recent interval ended by its end,
\* and SIL when there is none
CarriesMostRecent(n) ==
    tl.frames[n].phoneme =
        (IF EndedBy(n) = {} THEN SIL
         ELSE label_file[CHOOSE k \in EndedBy(n) : \A j \in EndedBy(n) : j <= k][3].txt)

\* C12 as stated: for intervals in non-decreasing end order with non-empty
\* labels, no frame is labelled "SIL" after a frame that is not, and every
\* frame carries the phoneme of the most recent interval ended by its end.
C12_NeverBackToSIL ==
    (Built /\ SortedByEnd /\ NonEmptyLabels) =>
        /\ \A m, n \in 1..Len(tl.frames) :
              (m < n /\ tl.frames[m].phoneme # SIL) => tl.frames[n].phoneme # SIL
        /\ \A n \in 1..Len(tl.frames) : CarriesMostRecent(n)

\* C12 as amended: the frames that no interval has ended by form a prefix of
\* the timeline and are the ones labelled by the silence fallback; every other
\* frame carries the phoneme of the most recent interval ended by its end; and
\* when no interval is itself labelled "SIL" no frame is labelled "SIL" after
\* a frame that is not.
C12_FallbackFramesFormPrefix ==
    (Built /\ SortedByEnd /\ NonEmptyLabels) =>
        /\ \A m, n \in 1..Len(tl.frames) :
              (m < n /\ EndedBy(m) # {}) => EndedBy(n) # {}
        /\ \A n \in 1..Len(tl.frames) : CarriesMostRecent(n)
        /\ NoLabelReadsSIL =>
              \A m, n \in 1..Len(tl.frames) :
                 (m < n /\ tl.frames[m].phoneme # SIL) => tl.frames[n].phoneme # SIL

\* two intervals with a gap between them: the timeline opens with SIL, a frame
\* lying in the gap carries the first phoneme, and a frame that starts after
\* the last interval carries the second
C12_Witness ==
    /\ Built /\ SortedByEnd /\ NonEmptyLabels /\ NoLabelReadsSIL
    /\ Len(label_file) = 2
    /\ label_file[1][3].txt # label_file[2][3].txt
    /\ tl.frames[1].phoneme = SIL
    /\ \E n \in 1..Len(tl.frames) :
          /\ tl.frames[n].start >= label_file[1][2].ms
          /\ tl.frames[n].end <= label_file[2][1].ms
          /\ tl.frames[n].phoneme = label_file[1][3].txt
    /\ \E n \in 1..Len(tl.frames) :
          /\ tl.frames[n].start >= label_file[2][2].ms
          /\ tl.frames[n].phoneme = label_file[2][3].txt

=============================================================================
